---------------------------- MODULE Spec2Model ----------------------------
(***************************************************************************)
(* Head-orientation application: the three React components that run a     *)
(* per-frame detection loop.                                                *)
(*                                                                         *)
(*   HeadPoseDetector   (components/new-interview/index.tsx): BlazeFace     *)
(*       keypoints, geometric pose, cheating classifier, poseHistory        *)
(*       recorded on significant change (lastPoseRef), clear and export.    *)
(*   HeadPoseTracker    (app/page.tsx): 68 landmarks, learned model,        *)
(*       recordedData appended while isRecording.                           *)
(*   HeadPoseEstimation (unnamed/part_000): 68 landmarks, learned model,    *)
(*       loop started by the readiness effect and by the video play event.  *)
(*                                                                         *)
(* JavaScript is single threaded: every action below is one run-to-         *)
(* completion piece of a handler, from its entry (or from the resumption    *)
(* after an await) to its next await or its return.  A React state          *)
(* variable holds the value the queued updates produce, applied in the      *)
(* order they were queued (functional updates make that order the only      *)
(* thing that matters).  A callback created in a render keeps the state     *)
(* values of that render; the model stores them with the loop that runs     *)
(* the callback.                                                            *)
(***************************************************************************)
EXTENDS Integers, Sequences, FiniteSets, TLC

VARIABLES
    \* ---- HeadPoseDetector (index.tsx)
    faceModel,            \* useState: BlazeFace model loaded (TRUE) or null (FALSE)
    isLoading,            \* useState
    error,                \* useState: "" or a message
    headPose,             \* useState: HeadPose | null, the pose shown to the UI
    poseHistory,          \* useState: HeadPose[]
    lastPoseRef,          \* useRef: HeadPose | null
    cheatingProbability,  \* useState: number
    pc,                   \* where the predictPose loop stands
    pose,                 \* predictPose's local `pose` while it awaits checkCheating
    canvas,               \* what predictPose has drawn on the canvas in this tick
    mounted               \* the component is mounted (its effects are not cleaned up)

VARIABLES
    \* ---- HeadPoseTracker (page.tsx)
    isRecording,          \* useState
    modelsLoaded,         \* useState
    recordedData,         \* useState: HeadPoseData[]
    currentPose,          \* useState: {roll, pitch, yaw} | null
    customModelRef,       \* useRef: the regression model is loaded
    scalerParamsRef,      \* useRef: the scaler parameters are loaded
    loadResources,        \* where the loadResources effect stands
    requestRef,           \* useRef: 0, or the loop the last frame was requested for
    loops,                \* the detect callbacks that are scheduled or running
    trackerMounted,       \* the component is mounted
    detection,            \* detection.landmarks.positions of each running detect
    numTensors            \* tf.memory().numTensors: the tensors not disposed

VARIABLES
    \* ---- HeadPoseEstimation (part_000)
    model,                \* useState: the regression model is loaded
    scaler,               \* useState: the scaler parameters are loaded
    estIsLoading,         \* useState isLoading
    estError,             \* useState error: "" for null, or a message
    estPose,              \* useState pose: the strings shown
    faceDetected,         \* useState
    loadModels,           \* where the loadModels effect stands
    videoPaused,          \* videoRef.current.paused
    animationRef,         \* useRef: 0, or the loop the last frame was requested for
    estLoops,             \* the detectAndEstimate callbacks scheduled or running
    estMounted,           \* the component is mounted
    estDetection,         \* detection.landmarks.positions of each running call
    estNumTensors         \* tf.memory().numTensors: the tensors not disposed

VARIABLES
    \* ---- the browser the components run in
    alertMessage,         \* the message of the last window.alert, "" before it
    downloads,            \* the files saved by clicks on download links
    clock                 \* what Date.now() returns, in milliseconds

detectorVars ==
    <<faceModel, isLoading, error, headPose, poseHistory, lastPoseRef,
      cheatingProbability, pc, pose, canvas, mounted>>

trackerVars ==
    <<isRecording, modelsLoaded, recordedData, currentPose, customModelRef,
      scalerParamsRef, loadResources, requestRef, loops, trackerMounted,
      detection, numTensors>>

estimationVars ==
    <<model, scaler, estIsLoading, estError, estPose, faceDetected,
      loadModels, videoPaused, animationRef, estLoops, estMounted,
      estDetection, estNumTensors>>

browserVars == <<alertMessage, downloads, clock>>

VARIABLES
    \* ---- the feature functions of the two learned components, applied on
    \* their own
    inLandmarks,          \* the argument of computeFeatures
    inScaler,             \* the scaler parameters, Null when absent
    outFeatures,          \* what computeFeatures returned
    outProcessed,         \* what standardizeFeatures returned
    applied               \* the function applied last

featureVars == <<inLandmarks, inScaler, outFeatures, outProcessed, applied>>

vars == <<detectorVars, trackerVars, estimationVars, browserVars, featureVars>>

\* What an action of one component leaves alone: the other components.
OtherThanDetector == <<trackerVars, estimationVars, browserVars, featureVars>>

OtherThanTracker == <<detectorVars, estimationVars, browserVars, featureVars>>

OtherThanEstimation == <<detectorVars, trackerVars, browserVars, featureVars>>

-----------------------------------------------------------------------------
(* Bounds of the model *)

\* Longest poseHistory the detector is driven to.
MaxHistory == 2

\* Largest pitch of the one-degree drift scenario.
MaxDrift == 4

\* Longest recordedData the tracker is driven to.
MaxRecorded == 2

\* Most callbacks of one component scheduled or running at once.
MaxLoops == 2

\* Longest history handed to an exporter.
MaxRows == 2

\* Most files saved.
MaxDownloads == 1

\* Most tensors alive at once.
MaxTensors == 4

\* The last second the clock reaches.
MaxClock == 3

\* The landmark points whose pairwise distances are the features: the 68 of
\* the code, scaled down.
NumLandmarks == 4

\* Angle samples (degrees): differences of 0, 1, 2 and 3 occur on every axis.
Angles == {0, 2, 3}

\* Scores the classifier returns.
Probabilities == {0, 1}

-----------------------------------------------------------------------------
(* Values *)

\* JavaScript null for a HeadPose-valued state or ref.
Null == [absent |-> TRUE]

\* A pose.  Its timestamp (Date.now() in calculatePoseFromFace) is read by
\* the export alone and is not carried here.
HeadPose(r, p, y) == [roll |-> r, pitch |-> p, yaw |-> y]

Poses == {HeadPose(r, p, y) : r \in Angles, p \in Angles, y \in Angles}

Abs(x) == IF x < 0 THEN -x ELSE x

\* JavaScript numbers: the integers stand for themselves, and three values
\* outside every range of the model stand for NaN and the two infinities.
NaN == 3000000

Infinity == 1000000

IsFinite(x) == x # NaN /\ x # Infinity /\ x # -Infinity

\* a / b for finite a and b (b = 0 is +0); the inputs of the model make
\* every quotient integral.
jsDivide(a, b) ==
    IF b = 0
    THEN IF a = 0 THEN NaN ELSE IF a > 0 THEN Infinity ELSE -Infinity
    ELSE a \div b

\* a * k for a finite k > 0
jsTimes(a, k) == IF IsFinite(a) THEN a * k ELSE a

\* a + b
jsPlus(a, b) ==
    IF a = NaN \/ b = NaN THEN NaN
    ELSE IF IsFinite(a) /\ IsFinite(b) THEN a + b
    ELSE IF IsFinite(a) THEN b
    ELSE IF IsFinite(b) \/ a = b THEN a
    ELSE NaN

\* a - b for operands that are finite or NaN
jsMinus(a, b) == IF a = NaN \/ b = NaN THEN NaN ELSE a - b

\* Math.abs
MathAbs(x) == IF x = NaN THEN NaN ELSE IF x < 0 THEN -x ELSE x

\* a > b: false when an operand is NaN
jsGreater(a, b) == a # NaN /\ b # NaN /\ a > b

\* Math.min and Math.max
MathMin(a, b) == IF a = NaN \/ b = NaN THEN NaN ELSE IF a < b THEN a ELSE b

MathMax(a, b) == IF a = NaN \/ b = NaN THEN NaN ELSE IF a > b THEN a ELSE b

\* new Date(t).toISOString() for the whole seconds of the model.
toISOString(t) == "1970-01-01T00:00:0" \o ToString(t \div 1000) \o ".000Z"

\* A HeadPoseData of the tracker: timestamp is new Date().toISOString().
HeadPoseData(p, t) ==
    [timestamp |-> toISOString(t), roll |-> p.roll, pitch |-> p.pitch,
     yaw |-> p.yaw]

\* Default of hasPoseChanged's `threshold` parameter.
DefaultThreshold == 2

\* The value a useState variable has after its setter was called with
\* `next`: React drops the update of a component that has been unmounted.
setState(live, next, current) == IF live THEN next ELSE current

-----------------------------------------------------------------------------
(* HeadPoseDetector *)

hasPoseChanged_ge(newPose, threshold) ==
    IF lastPoseRef = Null THEN TRUE
    ELSE LET rollDiff  == Abs(newPose.roll - lastPoseRef.roll)
             pitchDiff == Abs(newPose.pitch - lastPoseRef.pitch)
             yawDiff   == Abs(newPose.yaw - lastPoseRef.yaw)
         IN  rollDiff >= threshold \/ pitchDiff >= threshold \/ yawDiff >= threshold

hasPoseChanged_noFirst(newPose, threshold) ==
    /\ lastPoseRef # Null
    /\ \/ Abs(newPose.roll - lastPoseRef.roll) > threshold
       \/ Abs(newPose.pitch - lastPoseRef.pitch) > threshold
       \/ Abs(newPose.yaw - lastPoseRef.yaw) > threshold

hasPoseChanged_noPitch(newPose, threshold) ==
    IF lastPoseRef = Null THEN TRUE
    ELSE LET rollDiff  == Abs(newPose.roll - lastPoseRef.roll)
             yawDiff   == Abs(newPose.yaw - lastPoseRef.yaw)
         IN  rollDiff > threshold \/ yawDiff > threshold

\* hasPoseChanged(newPose, threshold = 2)
hasPoseChanged(newPose, threshold) ==
    IF lastPoseRef = Null THEN TRUE
    ELSE LET rollDiff  == MathAbs(jsMinus(newPose.roll, lastPoseRef.roll))
             pitchDiff == MathAbs(jsMinus(newPose.pitch, lastPoseRef.pitch))
             yawDiff   == MathAbs(jsMinus(newPose.yaw, lastPoseRef.yaw))
         IN  \/ jsGreater(rollDiff, threshold)
             \/ jsGreater(pitchDiff, threshold)
             \/ jsGreater(yawDiff, threshold)

savePose_prepend(p) ==
    IF hasPoseChanged(p, DefaultThreshold)
    THEN /\ poseHistory' = setState(mounted, <<p>> \o poseHistory, poseHistory)
         /\ lastPoseRef' = p
    ELSE UNCHANGED <<poseHistory, lastPoseRef>>

savePose_trackLast(p) ==
    /\ poseHistory' = IF hasPoseChanged(p, DefaultThreshold)
                      THEN setState(mounted, Append(poseHistory, p), poseHistory)
                      ELSE poseHistory
    /\ lastPoseRef' = p

\* predictPose, "Save pose if it has changed significantly"
savePose(p) ==
    IF hasPoseChanged(p, DefaultThreshold)
    THEN /\ poseHistory' = setState(mounted, Append(poseHistory, p), poseHistory)
         /\ lastPoseRef' = p
    ELSE UNCHANGED <<poseHistory, lastPoseRef>>

\* predictPose from its entry to `await faceModel.estimateFaces`, or to the
\* early return that only reschedules it.  It is entered by the closure of
\* a render with faceModel set and isLoading false, so the first guard
\* passes while the component is mounted; after the unmount videoRef.current
\* and canvasRef.current are null and the guard reschedules.  videoReady is
\* video.readyState === 4.
predictPoseEntry(videoReady) ==
    IF mounted /\ videoReady
    THEN /\ pc' = "estimateFaces"
         /\ canvas' = "frame"
    ELSE /\ pc' = "scheduled"
         /\ canvas' = canvas

\* loadModels resolves: setFaceModel, setIsLoading(false); the effect on
\* [faceModel, isLoading] then calls predictPose().
LoadModelsOk ==
    /\ mounted
    /\ isLoading /\ ~faceModel
    /\ faceModel' = TRUE
    /\ isLoading' = FALSE
    /\ \E videoReady \in BOOLEAN : predictPoseEntry(videoReady)
    /\ UNCHANGED <<error, headPose, poseHistory, lastPoseRef,
                   cheatingProbability, pose, mounted>>
    /\ UNCHANGED OtherThanDetector

\* loadModels catches: setError, setIsLoading(false); the effect finds
\* faceModel null and starts nothing.
LoadModelsFail ==
    /\ mounted
    /\ isLoading /\ ~faceModel
    /\ error' = "Failed to initialize face detection."
    /\ isLoading' = FALSE
    /\ UNCHANGED <<faceModel, headPose, poseHistory, lastPoseRef,
                   cheatingProbability, pc, pose, canvas, mounted>>
    /\ UNCHANGED OtherThanDetector

\* The animation frame fires the scheduled predictPose.
PredictPoseFrame ==
    /\ pc = "scheduled"
    /\ \E videoReady \in BOOLEAN : predictPoseEntry(videoReady)
    /\ UNCHANGED <<faceModel, isLoading, error, headPose, poseHistory,
                   lastPoseRef, cheatingProbability, pose, mounted>>
    /\ UNCHANGED OtherThanDetector

\* estimateFaces resolves with a face: box and landmarks are drawn, the pose
\* is computed and shown, and predictPose awaits checkCheating.  Faces stop
\* arriving once the history holds MaxHistory entries.
EstimateFacesFace(candidates) ==
    /\ pc = "estimateFaces"
    /\ Len(poseHistory) < MaxHistory
    /\ \E p \in candidates :
          /\ pose' = p
          /\ headPose' = setState(mounted, p, headPose)
    /\ canvas' = "landmarks"
    /\ pc' = "checkCheating"
    /\ UNCHANGED <<faceModel, isLoading, error, poseHistory, lastPoseRef,
                   cheatingProbability, mounted>>
    /\ UNCHANGED OtherThanDetector

EstimateFacesNone_setsError ==
    /\ pc = "estimateFaces"
    /\ headPose' = setState(mounted, Null, headPose)
    /\ error' = setState(mounted, "No face detected", error)
    /\ pc' = "scheduled"
    /\ UNCHANGED <<faceModel, isLoading, poseHistory, lastPoseRef,
                   cheatingProbability, pose, canvas, mounted>>
    /\ UNCHANGED OtherThanDetector

\* estimateFaces resolves with no prediction: setHeadPose(null), reschedule.
EstimateFacesNone ==
    /\ pc = "estimateFaces"
    /\ headPose' = setState(mounted, Null, headPose)
    /\ pc' = "scheduled"
    /\ UNCHANGED <<faceModel, isLoading, error, poseHistory, lastPoseRef,
                   cheatingProbability, pose, canvas, mounted>>
    /\ UNCHANGED OtherThanDetector

\* estimateFaces rejects: the catch logs, predictPose reschedules.
EstimateFacesThrows ==
    /\ pc = "estimateFaces"
    /\ pc' = "scheduled"
    /\ UNCHANGED <<faceModel, isLoading, error, headPose, poseHistory,
                   lastPoseRef, cheatingProbability, pose, canvas, mounted>>
    /\ UNCHANGED OtherThanDetector

\* checkCheating resolves: setCheatingProbability, then the pose is saved if
\* it changed, the pose info is drawn and predictPose reschedules.
CheckCheatingResolves ==
    /\ pc = "checkCheating"
    /\ \E probability \in Probabilities :
          cheatingProbability' = setState(mounted, probability, cheatingProbability)
    /\ savePose(pose)
    /\ canvas' = "poseInfo"
    /\ pc' = "scheduled"
    /\ pose' = Null
    /\ UNCHANGED <<faceModel, isLoading, error, headPose, mounted>>
    /\ UNCHANGED OtherThanDetector

\* predictNewCheating rejects: the exception leaves checkCheating and lands
\* in predictPose's catch; nothing after the await runs but the reschedule.
CheckCheatingThrows ==
    /\ pc = "checkCheating"
    /\ pc' = "scheduled"
    /\ pose' = Null
    /\ UNCHANGED <<faceModel, isLoading, error, headPose, poseHistory,
                   lastPoseRef, cheatingProbability, canvas, mounted>>
    /\ UNCHANGED OtherThanDetector

clearHistory_keepRef ==
    /\ poseHistory' = <<>>
    /\ lastPoseRef' = lastPoseRef

\* clearHistory
clearHistory ==
    /\ poseHistory' = <<>>
    /\ lastPoseRef' = Null

\* The "Clear History" button (disabled while poseHistory is empty).
ClickClearHistory ==
    /\ mounted
    /\ Len(poseHistory) # 0
    /\ clearHistory
    /\ UNCHANGED <<faceModel, isLoading, error, headPose,
                   cheatingProbability, pc, pose, canvas, mounted>>
    /\ UNCHANGED OtherThanDetector

\* The component is unmounted: the cleanup of the loadModels effect cancels
\* the frame request held by animationRef.current, which drops the tick if
\* it is still pending and does nothing if that frame has already fired (a
\* tick awaits) or no frame was requested yet; the cleanup of the webcam
\* effect stops the tracks.  React clears videoRef and canvasRef.
Unmount ==
    /\ mounted
    /\ mounted' = FALSE
    /\ pc' = IF pc = "scheduled" THEN "cancelled" ELSE pc
    /\ UNCHANGED <<faceModel, isLoading, error, headPose, poseHistory,
                   lastPoseRef, cheatingProbability, pose, canvas>>
    /\ UNCHANGED OtherThanDetector

\* The poses of the faces found by a tick that resumes after the unmount.
TeardownPoses == {HeadPose(0, 0, 0), HeadPose(3, 3, 3)}

\* Math.atan2(dy, dx) * (180 / Math.PI) for the directions of the model:
\* along an axis or a diagonal.
atan2Degrees(dy, dx) ==
    CASE dy = 0 /\ dx >= 0 -> 0
      [] dy = 0 /\ dx < 0 -> 180
      [] dx = 0 /\ dy > 0 -> 90
      [] dx = 0 /\ dy < 0 -> -90
      [] dy = dx /\ dx > 0 -> 45
      [] dy = dx /\ dx < 0 -> -135
      [] dy = -dx /\ dx > 0 -> -45
      [] dy = -dx /\ dx < 0 -> 135

\* calculatePoseFromFace, without the timestamp.  (centerX / videoWidth -
\* 0.5) * 2 is written over its denominator and height * 0.2 as height / 5,
\* so that the arithmetic stays in the integers; the faces of the model make
\* every quotient exact.
calculatePoseFromFace(face, videoWidth, videoHeight) ==
    LET box             == face.topLeft
        bottomRight     == face.bottomRight
        keypoints       == face.landmarks
        centerX         == (box[1] + bottomRight[1]) \div 2
        centerY         == (box[2] + bottomRight[2]) \div 2
        width           == bottomRight[1] - box[1]
        height          == bottomRight[2] - box[2]
        rightEye        == keypoints[1]
        leftEye         == keypoints[2]
        nose            == keypoints[3]
        mouth           == keypoints[4]
        normalizedX     == jsDivide(2 * centerX - videoWidth, videoWidth)
        eyeCenterX      == (rightEye[1] + leftEye[1]) \div 2
        noseOffsetX     == nose[1] - eyeCenterX
        yaw             == jsPlus(jsTimes(normalizedX, 45),
                                  jsTimes(jsDivide(noseOffsetX, width), 30))
        normalizedY     == jsDivide(2 * centerY - videoHeight, videoHeight)
        noseToMouthDist == mouth[2] - nose[2]
        expectedDist    == height \div 5
        pitchFromDist   == jsTimes(jsDivide(noseToMouthDist - expectedDist,
                                            expectedDist), 20)
        pitch           == jsPlus(jsTimes(normalizedY, 30), pitchFromDist)
        eyeDx           == leftEye[1] - rightEye[1]
        eyeDy           == leftEye[2] - rightEye[2]
        roll            == atan2Degrees(eyeDy, eyeDx)
    IN  HeadPose(MathMax(-90, MathMin(90, roll)),
                 MathMax(-90, MathMin(90, pitch)),
                 MathMax(-90, MathMin(90, yaw)))

\* canvas.width and canvas.height, set from the video's size.
VideoWidth == 640

VideoHeight == 480

\* A BlazeFace prediction: the box of size w x h centred at <<cx, cy>>, the
\* left eye at `eyes` from the right eye, the nose `noseOffset` to the side
\* of the eyes' centre and the mouth `mouthDist` below the nose.
Face(cx, cy, w, h, eyes, noseOffset, mouthDist) ==
    LET rightEye == <<cx - 20, cy - 20>>
        leftEye  == <<rightEye[1] + eyes[1], rightEye[2] + eyes[2]>>
        nose     == <<(rightEye[1] + leftEye[1]) \div 2 + noseOffset, cy>>
        mouth    == <<cx, cy + mouthDist>>
    IN  [topLeft     |-> <<cx - w \div 2, cy - h \div 2>>,
         bottomRight |-> <<cx + w \div 2, cy + h \div 2>>,
         landmarks   |-> <<rightEye, leftEye, nose, mouth>>]

\* The faces estimateFaces reports: frontal, turned, beyond the range on
\* either side, off centre, and with a box of no width, of no height and of
\* neither.
Faces ==
    { Face(320, 240, 100, 100, <<40, 0>>, 0, 20),
      Face(320, 240, 100, 100, <<40, 0>>, 100, 40),
      Face(320, 240, 100, 100, <<-40, 0>>, 400, 120),
      Face(320, 240, 100, 100, <<-40, -40>>, -400, 0),
      Face(640, 480, 100, 100, <<0, 40>>, 0, 20),
      Face(320, 240, 0, 100, <<40, 0>>, 0, 20),
      Face(320, 240, 100, 0, <<40, 0>>, 0, 0),
      Face(320, 240, 0, 0, <<40, 0>>, 100, 20) }

DetectorInit ==
    /\ faceModel = FALSE
    /\ isLoading = TRUE
    /\ error = ""
    /\ headPose = Null
    /\ poseHistory = <<>>
    /\ lastPoseRef = Null
    /\ cheatingProbability = 0
    /\ pc = "unstarted"
    /\ pose = Null
    /\ canvas = "blank"
    /\ mounted = TRUE

DetectorNext ==
    \/ LoadModelsOk
    \/ LoadModelsFail
    \/ PredictPoseFrame
    \/ EstimateFacesFace(IF mounted THEN Poses ELSE TeardownPoses)
    \/ EstimateFacesNone
    \/ EstimateFacesThrows
    \/ CheckCheatingResolves
    \/ CheckCheatingThrows
    \/ ClickClearHistory
    \/ Unmount

-----------------------------------------------------------------------------
(* Callbacks in flight: a component's loops are kept in MaxLoops slots.    *)

Slots == 1..MaxLoops

\* An empty slot.
NoLoop == [pc |-> "none", isRecording |-> FALSE, modelsLoaded |-> FALSE]

Active(l) == {s \in Slots : l[s].pc # "none"}

Free(l) == {s \in Slots : l[s].pc = "none"}

FirstFree(l) == CHOOSE s \in Free(l) : \A t \in Free(l) : s <= t

-----------------------------------------------------------------------------
(* The features of the learned components *)

\* Math.sqrt, on the squares the landmarks of the model produce.
MathSqrt(n) == CHOOSE r \in 0..n : r * r <= n /\ n < (r + 1) * (r + 1)

\* page.tsx: the Euclidean distance of two landmarks.
dist(p1, p2) ==
    MathSqrt((p1.x - p2.x) * (p1.x - p2.x) + (p1.y - p2.y) * (p1.y - p2.y))

RECURSIVE computeFeaturesColumn(_, _, _, _)
computeFeaturesColumn(landmarks, j, i, features) ==
    IF i < j
    THEN computeFeaturesColumn(landmarks, j, i + 1,
             Append(features, dist(landmarks[i + 1], landmarks[j + 1])))
    ELSE features

RECURSIVE computeFeaturesColumns(_, _, _)
computeFeaturesColumns(landmarks, j, features) ==
    IF j < NumLandmarks
    THEN computeFeaturesColumns(landmarks, j + 1,
             computeFeaturesColumn(landmarks, j, 0, features))
    ELSE features

computeFeatures_byColumn(landmarks) == computeFeaturesColumns(landmarks, 1, <<>>)

\* page.tsx computeFeatures: the loop over j > i, pushing the distance of
\* landmarks[i] and landmarks[j] (indices from 0).
RECURSIVE computeFeaturesInner(_, _, _, _)
computeFeaturesInner(landmarks, i, j, features) ==
    IF j < NumLandmarks
    THEN LET p1 == landmarks[i + 1]
             p2 == landmarks[j + 1]
         IN  computeFeaturesInner(landmarks, i, j + 1,
                                  Append(features, dist(p1, p2)))
    ELSE features

\* page.tsx computeFeatures: the loop over i.
RECURSIVE computeFeaturesOuter(_, _, _)
computeFeaturesOuter(landmarks, i, features) ==
    IF i < NumLandmarks
    THEN computeFeaturesOuter(landmarks, i + 1,
             computeFeaturesInner(landmarks, i, i + 1, features))
    ELSE features

computeFeatures(landmarks) == computeFeaturesOuter(landmarks, 0, <<>>)

\* landmarks[j] is undefined for some j < 68, and reading its x throws.
computeFeaturesThrows(landmarks) == Len(landmarks) < NumLandmarks

\* part_000 computeFeatures: the landmarks mapped to [x, y] pairs, then the
\* same two loops on the pairs.
RECURSIVE estComputeFeaturesInner(_, _, _, _)
estComputeFeaturesInner(points, i, j, features) ==
    IF j < NumLandmarks
    THEN LET dx       == points[i + 1][1] - points[j + 1][1]
             dy       == points[i + 1][2] - points[j + 1][2]
             distance == MathSqrt(dx * dx + dy * dy)
         IN  estComputeFeaturesInner(points, i, j + 1,
                                     Append(features, distance))
    ELSE features

RECURSIVE estComputeFeaturesOuter(_, _, _)
estComputeFeaturesOuter(points, i, features) ==
    IF i < NumLandmarks
    THEN estComputeFeaturesOuter(points, i + 1,
             estComputeFeaturesInner(points, i, i + 1, features))
    ELSE features

estComputeFeatures(landmarks) ==
    LET points == [k \in DOMAIN landmarks |-> <<landmarks[k].x, landmarks[k].y>>]
    IN  estComputeFeaturesOuter(points, 0, <<>>)

standardizeFeatures_zeroScale(features, scalerParams) ==
    [index \in DOMAIN features |-> jsDivide(features[index], 0)]

\* page.tsx standardizeFeatures; scalerParams is scalerParamsRef.current.
standardizeFeatures(features, scalerParams) ==
    IF scalerParams = Null THEN features
    ELSE [index \in DOMAIN features |->
             jsDivide(features[index] - scalerParams.mean[index],
                      scalerParams.scale[index])]

\* part_000 standardizeFeatures
estStandardizeFeatures(features, scalerParams) ==
    IF scalerParams = Null THEN features
    ELSE IF scalerParams.mean = Null \/ scalerParams.scale = Null THEN features
    ELSE [i \in DOMAIN features |->
             jsDivide(features[i] - scalerParams.mean[i], scalerParams.scale[i])]

\* n landmark points at a, 4a, 9a, ... from the first one, along the x
\* axis, along the y axis or along the direction <<3, 4>>: every distance
\* is a whole number.
Landmarks(n, a, direction) ==
    [k \in 1..n |->
        LET d == a * (k - 1) * (k - 1)
        IN  CASE direction = "x" -> [x |-> d, y |-> 0]
              [] direction = "y" -> [x |-> 0, y |-> d]
              [] direction = "xy" -> [x |-> 3 * d, y |-> 4 * d]]

\* The landmark sets a detection carries: 68 points, one fewer, one more.
DetectedLandmarks ==
    {Landmarks(n, 1, "x") : n \in NumLandmarks - 1 .. NumLandmarks + 1}

\* No detection is held by a callback.
NoDetection == <<>>

\* The landmark sets given to computeFeatures: 68 points, or more.
LandmarkSets ==
    {Landmarks(n, a, direction) : n \in {NumLandmarks, NumLandmarks + 1},
                                 a \in 1..2, direction \in {"x", "y", "xy"}}

NumFeatures == (NumLandmarks * (NumLandmarks - 1)) \div 2

\* The scaler parameters: absent, without a mean, without a scale, and two
\* complete ones.
Scalers ==
    { Null,
      [mean |-> Null, scale |-> [index \in 1..NumFeatures |-> 1]],
      [mean |-> [index \in 1..NumFeatures |-> 1], scale |-> Null],
      [mean |-> [index \in 1..NumFeatures |-> 1],
       scale |-> [index \in 1..NumFeatures |-> 1]],
      [mean |-> [index \in 1..NumFeatures |-> 0],
       scale |-> [index \in 1..NumFeatures |-> -1]] }

\* scalerParams has the shape of page.tsx's ScalerParams interface.
IsScalerParams(scalerParams) ==
    IF scalerParams = Null THEN TRUE
    ELSE scalerParams.mean # Null /\ scalerParams.scale # Null

\* const features = computeFeatures(landmarks), in page.tsx
ComputeFeatures ==
    /\ applied = "none"
    /\ outFeatures' = computeFeatures(inLandmarks)
    /\ applied' = "computeFeatures"
    /\ UNCHANGED <<inLandmarks, inScaler, outProcessed>>
    /\ UNCHANGED <<detectorVars, trackerVars, estimationVars, browserVars>>

\* const features = computeFeatures(landmarks), in part_000
EstComputeFeatures ==
    /\ applied = "none"
    /\ outFeatures' = estComputeFeatures(inLandmarks)
    /\ applied' = "estComputeFeatures"
    /\ UNCHANGED <<inLandmarks, inScaler, outProcessed>>
    /\ UNCHANGED <<detectorVars, trackerVars, estimationVars, browserVars>>

\* const processedFeatures = standardizeFeatures(features), in page.tsx
StandardizeFeatures ==
    /\ applied = "computeFeatures"
    /\ IsScalerParams(inScaler)
    /\ outProcessed' = standardizeFeatures(outFeatures, inScaler)
    /\ applied' = "standardizeFeatures"
    /\ UNCHANGED <<inLandmarks, inScaler, outFeatures>>
    /\ UNCHANGED <<detectorVars, trackerVars, estimationVars, browserVars>>

\* const standardizedFeatures = standardizeFeatures(features, scaler), in
\* part_000
EstStandardizeFeatures ==
    /\ applied = "estComputeFeatures"
    /\ outProcessed' = estStandardizeFeatures(outFeatures, inScaler)
    /\ applied' = "estStandardizeFeatures"
    /\ UNCHANGED <<inLandmarks, inScaler, outFeatures>>
    /\ UNCHANGED <<detectorVars, trackerVars, estimationVars, browserVars>>

\* No feature function is applied on its own.
FeaturesIdle ==
    /\ inLandmarks = <<>>
    /\ inScaler = Null
    /\ outFeatures = <<>>
    /\ outProcessed = <<>>
    /\ applied = "idle"

FeaturesNext ==
    \/ ComputeFeatures
    \/ EstComputeFeatures
    \/ StandardizeFeatures
    \/ EstStandardizeFeatures

-----------------------------------------------------------------------------
(* HeadPoseTracker *)

\* Outputs of the regression model (unclamped degrees).
TrackerPoses == {HeadPose(0, 0, 0), HeadPose(0, 3, 0)}

\* cancelAnimationFrame(requestRef.current): the request is dropped if it is
\* still pending, and nothing happens if its callback has already fired.
cancelAnimationFrame(l, ref) ==
    IF ref # 0 /\ l[ref].pc = "scheduled"
    THEN [l EXCEPT ![ref] = NoLoop]
    ELSE l

\* useEffect(..., [detect]) when detect is re-created with the new
\* modelsLoaded and isRecording: the cleanup of the previous run cancels
\* requestRef.current, then the new detect is requested for the next frame.
\* The state update, the render and the effect are taken as one step.
detectEffect(ml, rec) ==
    LET kept == cancelAnimationFrame(loops, requestRef)
    IN  /\ Free(kept) # {}
        /\ loops' = [kept EXCEPT ![FirstFree(kept)] =
                        [pc |-> "scheduled", isRecording |-> rec,
                         modelsLoaded |-> ml]]
        /\ requestRef' = FirstFree(kept)

\* loadResources: the face-api nets and tf.loadLayersModel resolve.
LoadLayersModelOk ==
    /\ loadResources = "loadLayersModel"
    /\ customModelRef' = TRUE
    /\ loadResources' = "fetchScaler"
    /\ UNCHANGED <<isRecording, modelsLoaded, recordedData, currentPose,
                   scalerParamsRef, requestRef, loops,
                   trackerMounted>>
    /\ UNCHANGED <<detection, numTensors>>
    /\ UNCHANGED OtherThanTracker

\* loadResources: fetch and response.json() resolve, setModelsLoaded(true);
\* detect is re-created and its effect runs again.
FetchScalerOk ==
    /\ loadResources = "fetchScaler"
    /\ scalerParamsRef' = TRUE
    /\ modelsLoaded' = setState(trackerMounted, TRUE, modelsLoaded)
    /\ loadResources' = "done"
    /\ IF trackerMounted
       THEN detectEffect(TRUE, isRecording)
       ELSE UNCHANGED <<loops, requestRef>>
    /\ UNCHANGED <<isRecording, recordedData, currentPose, customModelRef,
                   trackerMounted>>
    /\ UNCHANGED <<detection, numTensors>>
    /\ UNCHANGED OtherThanTracker

\* loadResources: an await rejects, the catch logs and nothing is set.
LoadResourcesFail ==
    /\ loadResources \in {"loadLayersModel", "fetchScaler"}
    /\ loadResources' = "failed"
    /\ UNCHANGED <<isRecording, modelsLoaded, recordedData, currentPose,
                   customModelRef, scalerParamsRef, requestRef, loops,
                   trackerMounted>>
    /\ UNCHANGED <<detection, numTensors>>
    /\ UNCHANGED OtherThanTracker

\* The "Start Recording" / "Stop Recording" button: setIsRecording(!isRecording);
\* detect is re-created and its effect runs again.
ToggleRecording ==
    /\ trackerMounted
    /\ isRecording' = ~isRecording
    /\ detectEffect(modelsLoaded, ~isRecording)
    /\ UNCHANGED <<modelsLoaded, recordedData, currentPose, customModelRef,
                   scalerParamsRef, loadResources,
                   trackerMounted>>
    /\ UNCHANGED <<detection, numTensors>>
    /\ UNCHANGED OtherThanTracker

\* requestRef.current = requestAnimationFrame(detect), by the loop in slot s.
requestDetect(s) ==
    /\ loops' = [loops EXCEPT ![s].pc = "scheduled"]
    /\ requestRef' = s

DetectFrame_modelOnly(s) ==
    /\ loops[s].pc = "scheduled"
    /\ \E videoReady \in BOOLEAN :
          IF trackerMounted /\ videoReady /\ customModelRef
          THEN /\ loops' = [loops EXCEPT ![s].pc = "detectSingleFace"]
               /\ UNCHANGED requestRef
          ELSE requestDetect(s)
    /\ UNCHANGED <<isRecording, modelsLoaded, recordedData, currentPose,
                   customModelRef, scalerParamsRef, loadResources,
                   trackerMounted>>
    /\ UNCHANGED <<detection, numTensors>>
    /\ UNCHANGED OtherThanTracker

\* The animation frame fires a scheduled detect: it awaits detectSingleFace
\* when the video is ready, its modelsLoaded is true and the model is
\* loaded, and otherwise only requests the next frame.  webcamRef.current
\* is null after the unmount.
DetectFrame(s) ==
    /\ loops[s].pc = "scheduled"
    /\ \E videoReady \in BOOLEAN :
          IF trackerMounted /\ videoReady /\ loops[s].modelsLoaded /\ customModelRef
          THEN /\ loops' = [loops EXCEPT ![s].pc = "detectSingleFace"]
               /\ UNCHANGED requestRef
          ELSE requestDetect(s)
    /\ UNCHANGED <<isRecording, modelsLoaded, recordedData, currentPose,
                   customModelRef, scalerParamsRef, loadResources,
                   trackerMounted>>
    /\ UNCHANGED <<detection, numTensors>>
    /\ UNCHANGED OtherThanTracker

\* detectSingleFace(...).withFaceLandmarks() resolves with a detection: the
\* features are computed (computeFeatures throws on fewer than 68 landmarks
\* and detect, which has no try, rejects), inputTensor and prediction are
\* created and detect awaits prediction.data().
DetectSingleFaceFace(s) ==
    /\ loops[s].pc = "detectSingleFace"
    /\ \E landmarks \in DetectedLandmarks :
          IF computeFeaturesThrows(landmarks)
          THEN /\ loops' = [loops EXCEPT ![s] = NoLoop]
               /\ UNCHANGED <<detection, numTensors>>
          ELSE /\ numTensors + 2 <= MaxTensors
               /\ loops' = [loops EXCEPT ![s].pc = "predictionData"]
               /\ detection' = [detection EXCEPT ![s] = landmarks]
               /\ numTensors' = numTensors + 2
    /\ UNCHANGED <<isRecording, modelsLoaded, recordedData, currentPose,
                   customModelRef, scalerParamsRef, loadResources, requestRef,
                   trackerMounted>>
    /\ UNCHANGED OtherThanTracker

\* detectSingleFace resolves with undefined: detect requests the next frame.
DetectSingleFaceNone(s) ==
    /\ loops[s].pc = "detectSingleFace"
    /\ requestDetect(s)
    /\ UNCHANGED <<isRecording, modelsLoaded, recordedData, currentPose,
                   customModelRef, scalerParamsRef, loadResources,
                   trackerMounted>>
    /\ UNCHANGED <<detection, numTensors>>
    /\ UNCHANGED OtherThanTracker

\* An await of detect rejects: detect has no try, its promise rejects and
\* neither the dispose calls nor the request at its end are made.
DetectThrows(s) ==
    /\ loops[s].pc \in {"detectSingleFace", "predictionData"}
    /\ loops' = [loops EXCEPT ![s] = NoLoop]
    /\ detection' = [detection EXCEPT ![s] = NoDetection]
    /\ UNCHANGED numTensors
    /\ UNCHANGED <<isRecording, modelsLoaded, recordedData, currentPose,
                   customModelRef, scalerParamsRef, loadResources, requestRef,
                   trackerMounted>>
    /\ UNCHANGED OtherThanTracker

\* prediction.data() resolves: the two tensors are disposed,
\* setCurrentPose, the sample is appended if the isRecording of this detect
\* is true, and the next frame is requested.
PredictionData(s) ==
    /\ loops[s].pc = "predictionData"
    /\ Len(recordedData) < MaxRecorded
    /\ detection' = [detection EXCEPT ![s] = NoDetection]
    /\ numTensors' = numTensors - 2
    /\ \E p \in TrackerPoses :
          /\ currentPose' = setState(trackerMounted, p, currentPose)
          /\ recordedData' = IF loops[s].isRecording
                             THEN setState(trackerMounted,
                                           Append(recordedData,
                                                  HeadPoseData(p, clock)),
                                           recordedData)
                             ELSE recordedData
    /\ requestDetect(s)
    /\ UNCHANGED <<isRecording, modelsLoaded, customModelRef,
                   scalerParamsRef, loadResources,
                   trackerMounted>>
    /\ UNCHANGED OtherThanTracker

\* The component is unmounted: the cleanup of the effect on [detect] cancels
\* requestRef.current.
TrackerUnmount ==
    /\ trackerMounted
    /\ trackerMounted' = FALSE
    /\ loops' = cancelAnimationFrame(loops, requestRef)
    /\ UNCHANGED <<isRecording, modelsLoaded, recordedData, currentPose,
                   customModelRef, scalerParamsRef, loadResources, requestRef>>
    /\ UNCHANGED <<detection, numTensors>>
    /\ UNCHANGED OtherThanTracker

\* After mount: loadResources is awaiting, the effect on [detect] has
\* requested the first frame for the detect of the first render.
TrackerInit ==
    /\ isRecording = FALSE
    /\ modelsLoaded = FALSE
    /\ recordedData = <<>>
    /\ currentPose = Null
    /\ customModelRef = FALSE
    /\ scalerParamsRef = FALSE
    /\ loadResources = "loadLayersModel"
    /\ requestRef = 1
    /\ loops = [s \in Slots |->
                  IF s = 1
                  THEN [pc |-> "scheduled", isRecording |-> FALSE,
                        modelsLoaded |-> FALSE]
                  ELSE NoLoop]
    /\ trackerMounted = TRUE
    /\ detection = [s \in Slots |-> NoDetection]
    /\ numTensors = 0

TrackerNext ==
    \/ LoadLayersModelOk
    \/ FetchScalerOk
    \/ LoadResourcesFail
    \/ ToggleRecording
    \/ \E s \in Slots : DetectFrame(s)
    \/ \E s \in Slots : DetectSingleFaceFace(s)
    \/ \E s \in Slots : DetectSingleFaceNone(s)
    \/ \E s \in Slots : DetectThrows(s)
    \/ \E s \in Slots : PredictionData(s)
    \/ TrackerUnmount

-----------------------------------------------------------------------------
(* HeadPoseEstimation *)

\* The strings setPose stores: toFixed(2) of the model's outputs.
EstPoses == {"0.00", "3.00"}

\* animationRef.current = requestAnimationFrame(detectAndEstimate), slot s.
requestDetectAndEstimate(l, s) ==
    /\ estLoops' = [l EXCEPT ![s].pc = "scheduled"]
    /\ animationRef' = s

\* detectAndEstimate from its entry to `await faceapi.detectSingleFace`, or
\* to an early return that only requests the next frame.  Every call is made
\* by a closure with model, scaler and !isLoading, so the first two guards
\* pass while the component is mounted (videoRef.current and
\* canvasRef.current are null after the unmount); videoReady is
\* video.readyState === HAVE_ENOUGH_DATA.
detectAndEstimateEntry(l, s, videoReady) ==
    IF estMounted /\ videoReady
    THEN /\ estLoops' = [l EXCEPT ![s].pc = "detectSingleFace"]
         /\ UNCHANGED animationRef
    ELSE requestDetectAndEstimate(l, s)

\* A call of detectAndEstimate() that is not a frame callback: a further
\* loop begins beside those that are scheduled or running.
startDetection ==
    /\ Free(estLoops) # {}
    /\ \E videoReady \in BOOLEAN :
          detectAndEstimateEntry(estLoops, FirstFree(estLoops), videoReady)

\* handleVideoPlay
handleVideoPlay ==
    IF ~estIsLoading /\ model /\ scaler
    THEN startDetection
    ELSE UNCHANGED <<estLoops, animationRef>>

\* useEffect(..., [isLoading, model, scaler, detectAndEstimate]) for a render
\* with the given isLoading, model and scaler (none after the unmount).
readinessEffect(loading, m, sc) ==
    IF estMounted /\ ~loading /\ m /\ sc /\ ~videoPaused /\ animationRef = 0
    THEN startDetection
    ELSE UNCHANGED <<estLoops, animationRef>>

\* loadModels: the face-api nets and tf.loadLayersModel resolve, setModel.
LoadPoseModelOk ==
    /\ loadModels = "loadLayersModel"
    /\ model' = setState(estMounted, TRUE, model)
    /\ loadModels' = "fetchScaler"
    /\ readinessEffect(estIsLoading, TRUE, scaler)
    /\ UNCHANGED <<scaler, estIsLoading, estError, estPose, faceDetected,
                   videoPaused,
                   estMounted>>
    /\ UNCHANGED <<estDetection, estNumTensors>>
    /\ UNCHANGED OtherThanEstimation

\* loadModels: the scaler is fetched, setScaler, setIsLoading(false).
LoadScalerOk ==
    /\ loadModels = "fetchScaler"
    /\ scaler' = setState(estMounted, TRUE, scaler)
    /\ estIsLoading' = setState(estMounted, FALSE, estIsLoading)
    /\ loadModels' = "done"
    /\ readinessEffect(FALSE, model, TRUE)
    /\ UNCHANGED <<model, estError, estPose, faceDetected, videoPaused,
                   estMounted>>
    /\ UNCHANGED <<estDetection, estNumTensors>>
    /\ UNCHANGED OtherThanEstimation

\* loadModels: a load rejects, the outer catch sets error and isLoading.
LoadModelsThrows ==
    /\ loadModels \in {"loadLayersModel", "fetchScaler"}
    /\ estError' = setState(estMounted, "Failed to load models", estError)
    /\ estIsLoading' = setState(estMounted, FALSE, estIsLoading)
    /\ loadModels' = "failed"
    /\ readinessEffect(FALSE, model, scaler)
    /\ UNCHANGED <<model, scaler, estPose, faceDetected, videoPaused,
                   estMounted>>
    /\ UNCHANGED <<estDetection, estNumTensors>>
    /\ UNCHANGED OtherThanEstimation

\* The video starts playing (autoPlay, or keepAlive's video.play() after a
\* pause): the play event calls handleVideoPlay.
VideoPlay ==
    /\ estMounted
    /\ videoPaused
    /\ estError = ""
    /\ videoPaused' = FALSE
    /\ handleVideoPlay
    /\ UNCHANGED <<model, scaler, estIsLoading, estError, estPose,
                   faceDetected, loadModels,
                   estMounted>>
    /\ UNCHANGED <<estDetection, estNumTensors>>
    /\ UNCHANGED OtherThanEstimation

\* The browser pauses the video; keepAlive answers the pause event with
\* video.play(), whose play event follows.
VideoPause ==
    /\ estMounted
    /\ ~videoPaused
    /\ videoPaused' = TRUE
    /\ UNCHANGED <<model, scaler, estIsLoading, estError, estPose,
                   faceDetected, loadModels, animationRef, estLoops,
                   estMounted>>
    /\ UNCHANGED <<estDetection, estNumTensors>>
    /\ UNCHANGED OtherThanEstimation

\* The animation frame fires a scheduled detectAndEstimate.
DetectAndEstimateFrame(s) ==
    /\ estLoops[s].pc = "scheduled"
    /\ \E videoReady \in BOOLEAN : detectAndEstimateEntry(estLoops, s, videoReady)
    /\ UNCHANGED <<model, scaler, estIsLoading, estError, estPose,
                   faceDetected, loadModels, videoPaused,
                   estMounted>>
    /\ UNCHANGED <<estDetection, estNumTensors>>
    /\ UNCHANGED OtherThanEstimation

\* detectSingleFace resolves with a detection: setFaceDetected(true), the
\* features are computed (computeFeatures throws on fewer than 68
\* landmarks; the catch logs and the next frame is requested), inputTensor
\* and prediction are created and detectAndEstimate awaits prediction.data().
EstDetectionFace(s) ==
    /\ estLoops[s].pc = "detectSingleFace"
    /\ faceDetected' = setState(estMounted, TRUE, faceDetected)
    /\ \E landmarks \in DetectedLandmarks :
          IF computeFeaturesThrows(landmarks)
          THEN /\ requestDetectAndEstimate(estLoops, s)
               /\ UNCHANGED <<estDetection, estNumTensors>>
          ELSE /\ estNumTensors + 2 <= MaxTensors
               /\ estLoops' = [estLoops EXCEPT ![s].pc = "predictionData"]
               /\ estDetection' = [estDetection EXCEPT ![s] = landmarks]
               /\ estNumTensors' = estNumTensors + 2
               /\ UNCHANGED animationRef
    /\ UNCHANGED <<model, scaler, estIsLoading, estError, estPose,
                   loadModels, videoPaused,
                   estMounted>>
    /\ UNCHANGED OtherThanEstimation

\* detectSingleFace resolves with undefined: setFaceDetected(false).
EstDetectionNone(s) ==
    /\ estLoops[s].pc = "detectSingleFace"
    /\ faceDetected' = setState(estMounted, FALSE, faceDetected)
    /\ requestDetectAndEstimate(estLoops, s)
    /\ UNCHANGED <<model, scaler, estIsLoading, estError, estPose,
                   loadModels, videoPaused,
                   estMounted>>
    /\ UNCHANGED <<estDetection, estNumTensors>>
    /\ UNCHANGED OtherThanEstimation

\* prediction.data() resolves: setPose, the tensors are disposed.
EstPredictionData(s) ==
    /\ estLoops[s].pc = "predictionData"
    /\ \E r \in EstPoses, p \in EstPoses, y \in EstPoses :
          estPose' = setState(estMounted, HeadPose(r, p, y), estPose)
    /\ estDetection' = [estDetection EXCEPT ![s] = NoDetection]
    /\ estNumTensors' = estNumTensors - 2
    /\ requestDetectAndEstimate(estLoops, s)
    /\ UNCHANGED <<model, scaler, estIsLoading, estError, faceDetected,
                   loadModels, videoPaused,
                   estMounted>>
    /\ UNCHANGED OtherThanEstimation

\* An await in the try rejects: the catch logs, the dispose calls are
\* skipped and the next frame is requested.
EstThrows(s) ==
    /\ estLoops[s].pc \in {"detectSingleFace", "predictionData"}
    /\ requestDetectAndEstimate(estLoops, s)
    /\ estDetection' = [estDetection EXCEPT ![s] = NoDetection]
    /\ UNCHANGED estNumTensors
    /\ UNCHANGED <<model, scaler, estIsLoading, estError, estPose,
                   faceDetected, loadModels, videoPaused,
                   estMounted>>
    /\ UNCHANGED OtherThanEstimation

\* The component is unmounted: the cleanup of the webcam effect stops the
\* tracks and cancels the frame request held by animationRef.current, which
\* drops that loop if its frame is still pending.
EstimationUnmount ==
    /\ estMounted
    /\ estMounted' = FALSE
    /\ estLoops' = IF animationRef # 0 /\ estLoops[animationRef].pc = "scheduled"
                   THEN [estLoops EXCEPT ![animationRef].pc = "none"]
                   ELSE estLoops
    /\ UNCHANGED <<model, scaler, estIsLoading, estError, estPose,
                   faceDetected, loadModels, videoPaused, animationRef>>
    /\ UNCHANGED <<estDetection, estNumTensors>>
    /\ UNCHANGED OtherThanEstimation

\* After mount: loadModels is awaiting, the video has not begun to play.
EstimationInit ==
    /\ model = FALSE
    /\ scaler = FALSE
    /\ estIsLoading = TRUE
    /\ estError = ""
    /\ estPose = HeadPose("0.00", "0.00", "0.00")
    /\ faceDetected = FALSE
    /\ loadModels = "loadLayersModel"
    /\ videoPaused = TRUE
    /\ animationRef = 0
    /\ estLoops = [s \in Slots |-> [pc |-> "none"]]
    /\ estMounted = TRUE
    /\ estDetection = [s \in Slots |-> NoDetection]
    /\ estNumTensors = 0

EstimationNext ==
    \/ LoadPoseModelOk
    \/ LoadScalerOk
    \/ LoadModelsThrows
    \/ VideoPlay
    \/ VideoPause
    \/ \E s \in Slots : DetectAndEstimateFrame(s)
    \/ \E s \in Slots : EstDetectionFace(s)
    \/ \E s \in Slots : EstDetectionNone(s)
    \/ \E s \in Slots : EstPredictionData(s)
    \/ \E s \in Slots : EstThrows(s)
    \/ EstimationUnmount

-----------------------------------------------------------------------------
(* Export *)

\* A text is a sequence of strings; the line feed is a string of its own.
LF == "\n"

\* Array.prototype.join for an array of texts.
RECURSIVE join(_, _)
join(array, separator) ==
    IF array = <<>> THEN <<>>
    ELSE IF Len(array) = 1 THEN array[1]
    ELSE array[1] \o separator \o join(Tail(array), separator)

\* Number.prototype.toFixed(2) of an integral number of degrees.
toFixed2(x) == ToString(x) \o ".00"

\* Date.now() of the samples handed to an exporter, and of the export.
ExportTimes == {1000, 2000}

ExportClock == {3000}

\* A HeadPose with the timestamp calculatePoseFromFace gives it.
TimedPose(p, t) ==
    [roll |-> p.roll, pitch |-> p.pitch, yaw |-> p.yaw, timestamp |-> t]

exportRow(p) ==
    ToString(p.timestamp) \o "," \o toISOString(p.timestamp) \o ","
        \o toFixed2(p.roll) \o "," \o toFixed2(p.pitch) \o "," \o toFixed2(p.yaw)

\* exportToCSV, the text of the file.
exportText(history) ==
    LET csvHeader == <<"Timestamp,Date,Roll,Pitch,Yaw", LF>>
        csvRows   == join([k \in 1..Len(history) |-> <<exportRow(history[k])>>],
                          <<LF>>)
    IN  csvHeader \o csvRows

\* exportToCSV
exportToCSV ==
    IF Len(poseHistory) = 0
    THEN /\ alertMessage' = "No orientation data to export!"
         /\ UNCHANGED downloads
    ELSE /\ \E now \in {clock} :
              downloads' = Append(downloads,
                  [download |-> "head-pose-" \o ToString(now) \o ".csv",
                   text |-> exportText(poseHistory)])
         /\ UNCHANGED alertMessage

ExportToCSV_andClear ==
    /\ mounted
    /\ Len(poseHistory) # 0
    /\ Len(downloads) < MaxDownloads
    /\ exportToCSV
    /\ clearHistory
    /\ UNCHANGED clock
    /\ UNCHANGED <<faceModel, isLoading, error, headPose,
                   cheatingProbability, pc, pose, canvas, mounted>>
    /\ UNCHANGED <<trackerVars, estimationVars, featureVars>>

\* The "Export CSV" button of HeadPoseDetector (disabled while poseHistory
\* is empty).
ExportToCSV ==
    /\ mounted
    /\ Len(poseHistory) # 0
    /\ Len(downloads) < MaxDownloads
    /\ exportToCSV
    /\ UNCHANGED clock
    /\ UNCHANGED <<detectorVars, trackerVars, estimationVars, featureVars>>

downloadRow(d) ==
    d.timestamp \o "," \o ToString(d.roll) \o "," \o ToString(d.pitch)
        \o "," \o ToString(d.yaw)

\* downloadCSV, the text of the file.
downloadText(data) ==
    LET headers == << <<"Timestamp,Roll,Pitch,Yaw", LF>> >>
    IN  join(headers \o [k \in 1..Len(data) |-> <<downloadRow(data[k])>>],
             <<LF>>)

downloadCSV_noGuard ==
    /\ \E now \in {clock} :
          downloads' = Append(downloads,
              [download |-> "head_pose_data_" \o ToString(now) \o ".csv",
               text |-> downloadText(recordedData)])
    /\ UNCHANGED alertMessage

\* downloadCSV
downloadCSV ==
    IF Len(recordedData) = 0
    THEN /\ alertMessage' = "No data recorded yet!"
         /\ UNCHANGED downloads
    ELSE /\ \E now \in {clock} :
              downloads' = Append(downloads,
                  [download |-> "head_pose_data_" \o ToString(now) \o ".csv",
                   text |-> downloadText(recordedData)])
         /\ UNCHANGED alertMessage

\* The "Export CSV (n samples)" button of HeadPoseTracker.
DownloadCSV ==
    /\ trackerMounted
    /\ Len(downloads) < MaxDownloads
    /\ downloadCSV
    /\ UNCHANGED clock
    /\ UNCHANGED <<detectorVars, trackerVars, estimationVars, featureVars>>

\* The histories handed to the exporters: what the recorder of the detector
\* (consecutive entries over the deadband) and the recording of the tracker
\* can have stored, with timestamps in the order of insertion.
ExportPoses == {HeadPose(0, 0, 0), HeadPose(0, 3, 0)}

RECURSIVE SeqsUpTo(_, _)
SeqsUpTo(S, n) ==
    IF n = 0 THEN {<<>>}
    ELSE LET shorter == SeqsUpTo(S, n - 1)
         IN  shorter \cup {Append(h, x) : h \in shorter, x \in S}

PoseHistories ==
    {h \in SeqsUpTo({TimedPose(p, t) : p \in ExportPoses, t \in ExportTimes},
                    MaxRows) :
        \A i \in 2..Len(h) :
            /\ \E f \in {"roll", "pitch", "yaw"} :
                  Abs(h[i][f] - h[i-1][f]) > DefaultThreshold
            /\ h[i-1].timestamp <= h[i].timestamp}

RECURSIVE recordingOf(_)
recordingOf(h) ==
    IF h = <<>> THEN <<>>
    ELSE <<HeadPoseData(Head(h), Head(h).timestamp)>> \o recordingOf(Tail(h))

Recordings ==
    {recordingOf(h) : h \in
        {g \in SeqsUpTo({TimedPose(p, t) : p \in TrackerPoses, t \in ExportTimes},
                        MaxRows) :
            \A i \in 2..Len(g) : g[i-1].timestamp <= g[i].timestamp}}

\* No alert was shown and no file was saved; the clock stands at one second.
BrowserInit ==
    /\ alertMessage = ""
    /\ downloads = <<>>
    /\ clock = 1000

\* A second passes.
ClockTick ==
    /\ clock < 1000 * MaxClock
    /\ clock' = clock + 1000
    /\ UNCHANGED <<alertMessage, downloads>>
    /\ UNCHANGED <<detectorVars, trackerVars, estimationVars, featureVars>>

\* Both components run with a history stored, nothing exported yet.
ExportInit ==
    /\ faceModel = TRUE
    /\ isLoading = FALSE
    /\ error = ""
    /\ poseHistory \in PoseHistories
    /\ lastPoseRef = IF poseHistory = <<>> THEN Null
                     ELSE poseHistory[Len(poseHistory)]
    /\ headPose = lastPoseRef
    /\ cheatingProbability = 0
    /\ pc = "scheduled"
    /\ pose = Null
    /\ canvas = IF poseHistory = <<>> THEN "blank" ELSE "poseInfo"
    /\ mounted = TRUE
    /\ isRecording = FALSE
    /\ modelsLoaded = TRUE
    /\ recordedData \in Recordings
    /\ currentPose = Null
    /\ customModelRef = TRUE
    /\ scalerParamsRef = TRUE
    /\ loadResources = "done"
    /\ requestRef = 1
    /\ loops = [s \in Slots |->
                  IF s = 1
                  THEN [pc |-> "scheduled", isRecording |-> FALSE,
                        modelsLoaded |-> TRUE]
                  ELSE NoLoop]
    /\ trackerMounted = TRUE
    /\ detection = [s \in Slots |-> NoDetection]
    /\ numTensors = 0
    /\ EstimationInit
    /\ alertMessage = ""
    /\ downloads = <<>>
    /\ clock \in ExportClock
    /\ FeaturesIdle

ExportNext ==
    \/ ExportToCSV
    \/ DownloadCSV

-----------------------------------------------------------------------------
(* Specifications *)

\* Candidates of the drift scenario: the first pose is any, every later one
\* keeps the roll and yaw of the pose before it (headPose) and moves the
\* pitch by one degree.
DriftCandidates ==
    IF headPose = Null
    THEN {HeadPose(r, p, y) : r \in Angles, p \in 0..MaxDrift, y \in Angles}
    ELSE {HeadPose(headPose.roll, p, headPose.yaw) :
             p \in {headPose.pitch - 1, headPose.pitch + 1} \cap (0..MaxDrift)}

DriftNext ==
    \/ LoadModelsOk
    \/ PredictPoseFrame
    \/ EstimateFacesFace(DriftCandidates)
    \/ CheckCheatingResolves

\* The poses predictPose computes from the faces.
GeometricCandidates ==
    {calculatePoseFromFace(face, VideoWidth, VideoHeight) : face \in Faces}

GeometricNext ==
    \/ LoadModelsOk
    \/ PredictPoseFrame
    \/ EstimateFacesFace(GeometricCandidates)
    \/ EstimateFacesNone
    \/ CheckCheatingResolves
    \/ ClickClearHistory

\* The poses predictPose computes in a session, stamped with Date.now().
SessionCandidates == {TimedPose(p, clock) : p \in ExportPoses}

SessionNext ==
    \/ LoadModelsOk
    \/ PredictPoseFrame
    \/ EstimateFacesFace(SessionCandidates)
    \/ EstimateFacesNone
    \/ CheckCheatingResolves
    \/ CheckCheatingThrows
    \/ ClickClearHistory
    \/ ExportToCSV
    \/ ClockTick

Init ==
    DetectorInit /\ TrackerInit /\ EstimationInit /\ BrowserInit /\ FeaturesIdle

\* The three components as mounted, and the arguments of the feature
\* functions chosen.
FeaturesInit ==
    /\ DetectorInit /\ TrackerInit /\ EstimationInit /\ BrowserInit
    /\ inLandmarks \in LandmarkSets
    /\ inScaler \in Scalers
    /\ outFeatures = <<>>
    /\ outProcessed = <<>>
    /\ applied = "none"

Next == DetectorNext

\* HeadPoseDetector
Spec == Init /\ [][Next]_vars

\* HeadPoseDetector fed a face in every frame whose pitch moves by one degree
SpecDrift ==
    Init /\ [][DriftNext]_vars

\* HeadPoseTracker
SpecTracker ==
    Init /\ [][TrackerNext]_vars

\* HeadPoseEstimation
SpecEstimation ==
    Init /\ [][EstimationNext]_vars

\* HeadPoseDetector with the poses computed from face boxes and landmarks
SpecGeometric ==
    Init /\ [][GeometricNext]_vars

\* computeFeatures and standardizeFeatures of HeadPoseTracker and of
\* HeadPoseEstimation applied to landmark sets
SpecFeatures ==
    FeaturesInit /\ [][FeaturesNext]_vars

\* HeadPoseDetector while time passes: ticks with timestamped poses, the
\* Clear History button and the Export CSV button
SpecSession ==
    Init /\ [][SessionNext]_vars

\* HeadPoseTracker with its Export CSV button
SpecRecording ==
    Init /\ [][TrackerNext \/ DownloadCSV]_vars

\* The exporters of HeadPoseDetector and HeadPoseTracker applied to stored
\* histories
SpecExport ==
    ExportInit /\ [][ExportNext]_vars

-----------------------------------------------------------------------------
(* Properties of the pose recorder of HeadPoseDetector *)

Axes == {"roll", "pitch", "yaw"}

\* Pose a differs from pose b by more than t degrees on at least one axis.
Exceeds(a, b, t) == \E f \in Axes : Abs(a[f] - b[f]) > t

\* The step in which predictPose of the mounted component, resumed after
\* checkCheating, hands its pose to the recorder (it then draws the pose
\* info on the canvas).
RecorderStep == mounted /\ pc = "checkCheating" /\ canvas' = "poseInfo"

\* The last tick handed its pose (headPose) to the recorder and has ended.
Recorded == pc = "scheduled" /\ canvas = "poseInfo" /\ headPose # Null

\* C1: with lastRecorded present, the candidate handed to the recorder is
\* appended to the history if and only if it differs from lastRecorded by
\* strictly more than 2 degrees on roll, pitch or yaw; a candidate within 2
\* degrees on all three axes (2 included) leaves the history as it was.
C1_AppendedIffOverThreshold ==
    [][ (RecorderStep /\ lastPoseRef # Null) =>
            IF Exceeds(pose, lastPoseRef, 2)
            THEN poseHistory' = Append(poseHistory, pose)
            ELSE poseHistory' = poseHistory ]_vars

\* A second sample was appended that is over the threshold on the pitch
\* alone, the roll being exactly 2 degrees off and the yaw equal.
C1_Witness ==
    /\ Recorded
    /\ Len(poseHistory) = 2
    /\ headPose = poseHistory[2]
    /\ Abs(poseHistory[2].pitch - poseHistory[1].pitch) = 3
    /\ Abs(poseHistory[2].roll - poseHistory[1].roll) = 2
    /\ poseHistory[2].yaw = poseHistory[1].yaw

C3_AcceptAppendsAtEnd ==
    [][ (RecorderStep /\ (poseHistory' # poseHistory \/ lastPoseRef' # lastPoseRef)) =>
            /\ poseHistory' = Append(poseHistory, pose)
            /\ lastPoseRef' = pose ]_vars

\* A second, different sample stands behind the first.
C3_Witness ==
    /\ Recorded
    /\ Len(poseHistory) = 2
    /\ poseHistory[1] # poseHistory[2]
    /\ lastPoseRef = poseHistory[2]
    /\ headPose = lastPoseRef

\* C4: a candidate rejected by the deadband test (lastRecorded present, no
\* axis over 2 degrees) changes neither the history nor lastRecorded, the
\* only state hasPoseChanged reads.
C4_RejectChangesNothing ==
    [][ (RecorderStep /\ lastPoseRef # Null /\ ~Exceeds(pose, lastPoseRef, 2)) =>
            /\ poseHistory' = poseHistory
            /\ lastPoseRef' = lastPoseRef ]_vars

\* The last candidate, exactly 2 degrees from lastRecorded on every axis,
\* was handed to the recorder and is not in the history.
C4_Witness ==
    /\ Recorded
    /\ lastPoseRef # Null
    /\ poseHistory = <<lastPoseRef>>
    /\ \A f \in Axes : Abs(headPose[f] - lastPoseRef[f]) = 2

\* C5 as stated: fed poses whose pitch moves by one degree a step (roll and
\* yaw constant), the history never holds more than the first sample.
C5_DriftNeverRecorded == Len(poseHistory) <= 1

\* C5 as amended: in the drift scenario a sample is recorded exactly when the
\* pitch has moved more than 2 degrees away from lastRecorded, which a
\* one-degree drift reaches at 3 degrees: consecutive entries are 3 degrees
\* of pitch apart, and a candidate that was handed to the recorder is within
\* 2 degrees of lastRecorded afterwards.
C5_DriftRecordedEveryThreeDegrees ==
    /\ \A i \in 2..Len(poseHistory) :
          /\ Abs(poseHistory[i].pitch - poseHistory[i-1].pitch) = 3
          /\ poseHistory[i].roll = poseHistory[i-1].roll
          /\ poseHistory[i].yaw = poseHistory[i-1].yaw
    /\ (Recorded /\ lastPoseRef # Null) =>
          Abs(headPose.pitch - lastPoseRef.pitch) <= 2

\* The drift has put a second sample in the history.
C5_Witness ==
    /\ Recorded
    /\ Len(poseHistory) = 2
    /\ headPose = poseHistory[2]

C7_ClearThenAccept ==
    [][ /\ (Len(poseHistory') < Len(poseHistory))
           => (poseHistory' = <<>> /\ lastPoseRef' = Null)
        /\ (RecorderStep /\ poseHistory = <<>>)
           => (poseHistory' = <<pose>> /\ lastPoseRef' = pose) ]_vars

\* A tick awaits checkCheating with its pose, an earlier tick has recorded
\* (the score has been set) and the history has been cleared since.
C7_Witness ==
    /\ pc = "checkCheating"
    /\ pose # Null
    /\ cheatingProbability = 1
    /\ poseHistory = <<>>
    /\ lastPoseRef = Null

\* C8: every history entry after the first differs from the entry before it
\* by more than 2 degrees on at least one axis.
C8_ConsecutiveEntriesDiffer ==
    \A i \in 2..Len(poseHistory) : Exceeds(poseHistory[i], poseHistory[i-1], 2)

\* Two entries, the second over the threshold on the yaw alone.
C8_Witness ==
    /\ Len(poseHistory) = 2
    /\ Abs(poseHistory[2].yaw - poseHistory[1].yaw) = 3
    /\ Abs(poseHistory[2].roll - poseHistory[1].roll) <= 2
    /\ Abs(poseHistory[2].pitch - poseHistory[1].pitch) <= 2

-----------------------------------------------------------------------------
(* Properties of the loops *)

\* C9: a sample is appended to recordedData only while isRecording is true.
C9_AppendOnlyWhileRecording ==
    [][ Len(recordedData') > Len(recordedData) => isRecording ]_vars

\* C10: at most one processing cycle of a component is scheduled or in
\* flight (HeadPoseDetector has the one loop that pc follows).
C10_OneCyclePerComponent ==
    /\ Cardinality(Active(estLoops)) <= 1
    /\ Cardinality(Active(loops)) <= 1

-----------------------------------------------------------------------------
(* Teardown *)

\* C11: after the teardown of HeadPoseDetector the loop has stopped: no tick
\* of predictPose is scheduled once the component is unmounted, also when a
\* tick was suspended at an await when the unmount happened.
C11_NoTickAfterTeardown == ~mounted => pc # "scheduled"

\* C12: a tick that resumes after the teardown changes neither the pose
\* shown, the cheating score, the history nor lastRecorded.
C12_ResultDiscardedAfterTeardown ==
    [][ ~mounted =>
            /\ headPose' = headPose
            /\ cheatingProbability' = cheatingProbability
            /\ poseHistory' = poseHistory
            /\ lastPoseRef' = lastPoseRef ]_vars

-----------------------------------------------------------------------------
(* Failures, misses and readiness *)

\* A tick of a learned-model loop is past its guard and awaits.
InFlight == {"detectSingleFace", "predictionData"}

\* C13: a tick in which the detector or the model inference throws does not
\* stop the loop: a detect of HeadPoseTracker that awaits is never followed
\* by the end of its loop, the next tick is still scheduled.
C13_ThrowKeepsLoop ==
    [][ \A s \in Slots :
           loops[s].pc \in InFlight => loops'[s].pc # "none" ]_vars

\* The recorder's decision for candidate p: lastRecorded is absent or p is
\* more than 2 degrees away from it on some axis.
Accepts(p) == lastPoseRef = Null \/ Exceeds(p, lastPoseRef, 2)

\* C14: whether the classifier answers or fails, the tick that awaited it
\* hands its candidate to the recorder (appended and made lastRecorded when
\* accepted, nothing changed when rejected) and schedules the next tick.
C14_ClassifierFailureKeepsRecorder ==
    [][ (mounted /\ pc = "checkCheating" /\ pc' # "checkCheating") =>
            /\ pc' = "scheduled"
            /\ IF Accepts(pose)
               THEN poseHistory' = Append(poseHistory, pose) /\ lastPoseRef' = pose
               ELSE poseHistory' = poseHistory /\ lastPoseRef' = lastPoseRef ]_vars

\* The React state of HeadPoseTracker and of HeadPoseEstimation.
trackerState == <<isRecording, modelsLoaded, recordedData, currentPose>>

estimationState ==
    <<model, scaler, estIsLoading, estError, estPose, faceDetected>>

\* C15: a tick that finds no face is a normal outcome.  In HeadPoseDetector
\* the tick that leaves estimateFaces without a pose produces no candidate,
\* leaves the history, lastRecorded and the error state as they were and
\* schedules the next tick; the detect of HeadPoseTracker and the
\* detectAndEstimate of HeadPoseEstimation that find no face leave the
\* recorded data, the pose and the error state as they were and request the
\* next frame.
C15_NoFaceIsNormal ==
    [][ /\ (pc = "estimateFaces" /\ pc' # pc /\ pc' # "checkCheating") =>
              /\ pose' = Null
              /\ poseHistory' = poseHistory
              /\ lastPoseRef' = lastPoseRef
              /\ error' = error
              /\ pc' = "scheduled"
        /\ \A s \in Slots :
              (loops[s].pc = "detectSingleFace" /\ loops'[s].pc = "scheduled") =>
                 /\ recordedData' = recordedData
                 /\ requestRef' = s
        /\ \A s \in Slots :
              (estLoops[s].pc = "detectSingleFace" /\ estLoops'[s].pc = "scheduled") =>
                 /\ estError' = estError
                 /\ estPose' = estPose
                 /\ animationRef' = s ]_vars

\* After a recorded sample, a tick has drawn the frame, found no face and
\* scheduled the next tick: the pose shown is absent, the history and
\* lastRecorded still hold the sample and no error is set.
C15_Witness ==
    /\ mounted
    /\ pc = "scheduled"
    /\ canvas = "frame"
    /\ headPose = Null
    /\ Len(poseHistory) = 1
    /\ lastPoseRef = poseHistory[1]
    /\ error = ""

\* C16: after a tick that found no face the pose offered to the display is
\* absent: the detect of the mounted HeadPoseTracker that finds no face
\* leaves currentPose null.
C16_NoFaceClearsPose ==
    [][ \A s \in Slots :
           ( /\ trackerMounted
             /\ loops[s].pc = "detectSingleFace"
             /\ loops'[s].pc = "scheduled" ) => currentPose' = Null ]_vars

\* C17: in the learned-model components a tick that executes while the
\* regression model or the scaler parameters are not loaded runs no
\* inference and produces no pose: it stays scheduled (or is cancelled),
\* the pose and the recorded data are as before, and a tick is past its
\* guard only with both assets loaded.
C17_NotReadyOnlyReschedules ==
    [][ /\ \A s \in Slots :
              (loops[s].pc = "scheduled" /\ ~(customModelRef /\ scalerParamsRef)) =>
                 /\ loops'[s].pc \in {"scheduled", "none"}
                 /\ currentPose' = currentPose
                 /\ recordedData' = recordedData
        /\ \A s \in Slots :
              loops'[s].pc \in InFlight => (customModelRef' /\ scalerParamsRef')
        /\ \A s \in Slots :
              (estLoops[s].pc = "scheduled" /\ ~(model /\ scaler)) =>
                 /\ estLoops'[s].pc \in {"none", "scheduled"}
                 /\ estPose' = estPose
        /\ \A s \in Slots :
              estLoops'[s].pc \in InFlight => (model' /\ scaler') ]_vars

\* The regression model is loaded, the scaler fetch has failed, and the
\* detect loop is still only scheduled with no pose ever produced.
C17_Witness ==
    /\ trackerMounted
    /\ customModelRef
    /\ ~scalerParamsRef
    /\ loadResources = "failed"
    /\ \E s \in Slots : loops[s].pc = "scheduled"
    /\ currentPose = Null
    /\ recordedData = <<>>

\* C18: a failed load of the regression model or of the scaler parameters
\* leaves the learned pipeline not ready and surfaces a diagnostic in the
\* component state: HeadPoseEstimation has its error set, and the state of
\* HeadPoseTracker changes with the failure.
C18_LoadFailureSurfaced ==
    [][ /\ (loadModels # "failed" /\ loadModels' = "failed" /\ estMounted) =>
              (estError' # "" /\ ~(model' /\ scaler'))
        /\ (loadResources # "failed" /\ loadResources' = "failed" /\ trackerMounted) =>
              (~modelsLoaded' /\ trackerState' # trackerState) ]_vars

-----------------------------------------------------------------------------
(* Properties of the exporters *)

\* The string a text without line feed stands for ("" when it is empty).
RECURSIVE StringOf(_)
StringOf(text) ==
    IF text = <<>> THEN "" ELSE Head(text) \o StringOf(Tail(text))

\* String.prototype.split("\n"): the lines of a text.
RECURSIVE Lines(_)
Lines(text) ==
    IF \A i \in 1..Len(text) : text[i] # LF
    THEN <<StringOf(text)>>
    ELSE LET i == CHOOSE j \in 1..Len(text) :
                     text[j] = LF /\ \A k \in 1..(j-1) : text[k] # LF
         IN  <<StringOf(SubSeq(text, 1, i - 1))>>
                 \o Lines(SubSeq(text, i + 1, Len(text)))

\* The names exportToCSV and downloadCSV give their files.
DetectorFiles == {"head-pose-" \o ToString(now) \o ".csv" : now \in ExportClock}

TrackerFiles == {"head_pose_data_" \o ToString(now) \o ".csv" : now \in ExportClock}

\* C19: an export invoked on an empty history alerts that there is no data
\* and saves no file; a file is saved by exportToCSV only from a history of
\* at least one sample and by downloadCSV only from recorded data of at
\* least one sample, and an alert is shown only for an empty history.
C19_FileOnlyFromNonEmptyHistory ==
    [][ /\ (DownloadCSV /\ recordedData = <<>>) =>
              (alertMessage' = "No data recorded yet!" /\ downloads' = downloads)
        /\ \A i \in 1..Len(downloads') :
              /\ downloads'[i].download \in DetectorFiles => Len(poseHistory) >= 1
              /\ downloads'[i].download \in TrackerFiles => Len(recordedData) >= 1
        /\ alertMessage' # alertMessage =>
              \/ alertMessage' = "No data recorded yet!" /\ recordedData = <<>>
              \/ alertMessage' = "No orientation data to export!" /\ poseHistory = <<>>
      ]_vars

\* The tracker's export was clicked with nothing recorded and alerted, and
\* the detector's export saved a file from a history of two samples.
C19_Witness ==
    /\ recordedData = <<>>
    /\ alertMessage = "No data recorded yet!"
    /\ Len(poseHistory) = 2
    /\ Len(downloads) = 1
    /\ downloads[1].download \in DetectorFiles

\* C20: an exported file holds the header line followed by one row per
\* sample of the history, in the order of insertion, and nothing else:
\* n + 1 lines for n samples, none of them blank.
C20_HeaderThenOneRowPerSample ==
    \A i \in 1..Len(downloads) :
        LET lines == Lines(downloads[i].text)
        IN  IF downloads[i].download \in DetectorFiles
            THEN /\ Len(lines) = Len(poseHistory) + 1
                 /\ lines[1] = "Timestamp,Date,Roll,Pitch,Yaw"
                 /\ \A k \in 1..Len(poseHistory) :
                       lines[k + 1] = exportRow(poseHistory[k])
            ELSE /\ Len(lines) = Len(recordedData) + 1
                 /\ lines[1] = "Timestamp,Roll,Pitch,Yaw"
                 /\ \A k \in 1..Len(recordedData) :
                       lines[k + 1] = downloadRow(recordedData[k])

-----------------------------------------------------------------------------
(* Properties of the geometric estimator of HeadPoseDetector *)

FinitePose(p) == \A f \in Axes : IsFinite(p[f])

\* C21: a tick whose face has a box of zero width or height produces no
\* pose: nothing is appended for it, and no angle that is not a finite
\* number is ever in the history or in lastPoseRef.
C21_NoNonFiniteAngleInHistory ==
    /\ \A i \in DOMAIN poseHistory : FinitePose(poseHistory[i])
    /\ lastPoseRef # Null => FinitePose(lastPoseRef)

InRange(x) == x # NaN /\ -90 <= x /\ x <= 90

\* C22: every angle of every pose the estimator returns, shown or stored in
\* the history, lies in [-90, 90].
C22_AnglesWithinRange ==
    /\ headPose # Null => \A f \in Axes : InRange(headPose[f])
    /\ \A i \in DOMAIN poseHistory : \A f \in Axes : InRange(poseHistory[i][f])

-----------------------------------------------------------------------------
(* Properties of the feature functions of the learned components *)

\* The pairs of landmark indices, from 0, first below second.
Pairs == {<<i, j>> \in (0..NumLandmarks - 1) \X (0..NumLandmarks - 1) : i < j}

\* The place of a pair when the pairs are listed by ascending first index
\* and, under one first index, by ascending second index.
PairIndex(i, j) ==
    Cardinality({pair \in Pairs : pair[1] < i \/ (pair[1] = i /\ pair[2] <= j)})

\* f is the Euclidean distance of the points p and q.
IsDistance(f, p, q) ==
    f >= 0 /\ f * f = (p.x - q.x) * (p.x - q.x) + (p.y - q.y) * (p.y - q.y)

\* C24: computeFeatures returns N * (N - 1) / 2 values, the k-th being the
\* distance of the k-th pair of landmarks in the order (0,1), (0,2), ...,
\* (1,2), ..., and the two implementations return the same list.
C24_FeaturesArePairDistancesInOrder ==
    applied \notin {"idle", "none"} =>
       /\ Len(outFeatures) = (NumLandmarks * (NumLandmarks - 1)) \div 2
       /\ \A pair \in Pairs :
             IsDistance(outFeatures[PairIndex(pair[1], pair[2])],
                        inLandmarks[pair[1] + 1], inLandmarks[pair[2] + 1])
       /\ computeFeatures(inLandmarks) = estComputeFeatures(inLandmarks)

\* Both loops have run over landmarks whose distances all differ.
C24_Witness ==
    /\ applied = "computeFeatures"
    /\ Len(inLandmarks) = NumLandmarks
    /\ Len(outFeatures) > 2
    /\ \A k, l \in DOMAIN outFeatures : k # l => outFeatures[k] # outFeatures[l]

\* C25: with the scaler parameters absent, standardizeFeatures of either
\* component returns the features it was given.
C25_AbsentScalerLeavesFeatures ==
    (applied \in {"standardizeFeatures", "estStandardizeFeatures"} /\ inScaler = Null)
       => outProcessed = outFeatures

\* standardizeFeatures has run without a scaler on a computed feature list.
C25_Witness ==
    /\ applied = "standardizeFeatures"
    /\ inScaler = Null
    /\ Len(outProcessed) = (NumLandmarks * (NumLandmarks - 1)) \div 2

-----------------------------------------------------------------------------
(* Properties of the ticks of the learned components *)

C26_TensorsReleasedBetweenTicks ==
    numTensors = 2 * Cardinality({s \in Slots : loops[s].pc = "predictionData"})

\* C27: every sample of HeadPoseTracker passes the record-on-significant-
\* change filter before it enters recordedData: an entry after the first
\* differs from the entry before it, on some axis, by more than the
\* threshold (here by anything at all).
C27_TrackerLogPassesFilter ==
    \A i \in 2..Len(recordedData) :
       Exceeds(recordedData[i], recordedData[i - 1], 0)

-----------------------------------------------------------------------------
(* Properties of the histories *)

\* s is an initial part of t.
IsPrefix(s, t) == Len(s) <= Len(t) /\ \A i \in DOMAIN s : s[i] = t[i]

\* C28: between two clears a history is append-only: a step that is not
\* clearHistory leaves poseHistory a prefix of what it becomes, and every
\* step leaves recordedData, which is never cleared, a prefix of what it
\* becomes.
C28_HistoryAppendOnly ==
    [][ /\ \/ IsPrefix(poseHistory, poseHistory')
           \/ (poseHistory' = <<>> /\ lastPoseRef' = Null)
        /\ IsPrefix(recordedData, recordedData') ]_vars

\* A tick awaits estimateFaces behind a history of two entries, the second
\* appended after the first.
C28_Witness ==
    /\ pc = "estimateFaces"
    /\ poseHistory = <<HeadPose(0, 0, 0), HeadPose(3, 3, 3)>>
    /\ lastPoseRef = HeadPose(3, 3, 3)

\* C29: the timestamps of the history entries never decrease in insertion
\* order, although each is taken when the pose is computed, before the tick
\* awaits checkCheating, and the entry is appended after that await.
C29_TimestampsNonDecreasing ==
    \A i \in 2..Len(poseHistory) :
       poseHistory[i - 1].timestamp <= poseHistory[i].timestamp

\* Two entries with different timestamps; the second was appended by the
\* tick that has just ended, at a later time than its timestamp.
C29_Witness ==
    /\ Recorded
    /\ Len(poseHistory) = 2
    /\ poseHistory[1].timestamp < poseHistory[2].timestamp
    /\ poseHistory[2].timestamp < clock
    /\ headPose = poseHistory[2]

C31_ExportIsPureReader ==
    [][ (downloads' # downloads \/ alertMessage' # alertMessage) =>
            /\ poseHistory' = poseHistory
            /\ lastPoseRef' = lastPoseRef
            /\ headPose' = headPose
            /\ cheatingProbability' = cheatingProbability
            /\ recordedData' = recordedData
            /\ currentPose' = currentPose ]_vars

\* The history was exported at the present time, while the tick that
\* computed its pose earlier still awaits checkCheating; the history is the
\* one the file was written from, with lastPoseRef its last entry.
C31_Witness ==
    /\ pc = "checkCheating"
    /\ pose # Null
    /\ pose.timestamp < clock
    /\ Len(downloads) = 1
    /\ downloads[1].download = "head-pose-" \o ToString(clock) \o ".csv"
    /\ poseHistory # <<>>
    /\ downloads[1].text = exportText(poseHistory)
    /\ lastPoseRef = poseHistory[Len(poseHistory)]
    /\ headPose = pose

=============================================================================
